---- MODULE Spec2Model ----
(***************************************************************************)
(* PyniteFields: the Galois field GF(p^n) of pynitefields/galoisfield.py   *)
(* and its elements, pynitefields/fieldelement.py.                         *)
(*                                                                         *)
(* A client constructs one GaloisField and then calls its methods and the  *)
(* operators of its elements; every call is one action, its outcome is     *)
(* kept in `last`.  Python values are records tagged by `kind`: an element *)
(* ("elem"), an int ("int"), a bool ("bool"), None ("None"), or a raised   *)
(* exception ("raise").  A Python string is a sequence of one-character    *)
(* strings; a Python list is a sequence, read 0-based through At.          *)
(***************************************************************************)
EXTENDS Integers, Sequences, FiniteSets, TLC

(* Bounds of the model. *)
MaxExp == 23
MaxSdb == 2
MaxBasisIndex == 14
MaxCoefs == 2
MaxCoef == 1
MaxArg == 2

VARIABLES
    pc,        \* the client: "start", "ready", "other", "returned", "exit", "raised"
    p,         \* GaloisField.p
    n,         \* GaloisField.n (the argument n until the constructor ran)
    coefs,     \* GaloisField.coefs (the argument coefs)
    dim,       \* GaloisField.dim
    elements,  \* GaloisField.elements
    bool_sdb,  \* GaloisField.bool_sdb
    lists,     \* the field_list objects made so far; an element holds a reference
    last,      \* the last call: its name, its arguments, its outcome
    captured,  \* what the client kept from before the to_sdb it called last
    other      \* a second field the client built, and its field_list object

vars == <<pc, p, n, coefs, dim, elements, bool_sdb, lists, last, captured, other>>

---------------------------------------------------------------------------
(* Python values *)

None == [kind |-> "None"]

Raise(e) == [kind |-> "raise", exc |-> e]

IntVal(v) == [kind |-> "int", v |-> v]

BoolVal(b) == [kind |-> "bool", b |-> b]

\* an exception raised while evaluating x propagates; otherwise F goes on with x
Try(x, F(_)) == IF x.kind = "raise" THEN x ELSE F(x)

\* list[i], i counted from 0
At(list, i) == list[i + 1]

\* the list a reference stands for; 0 is an element's own empty list
Deref(ref) ==
    IF ref = 0 THEN <<>> ELSE IF ref < 0 THEN other.field_list ELSE lists[ref]

---------------------------------------------------------------------------
(* str, int and math.pow *)

Digits == <<"0", "1", "2", "3", "4", "5", "6", "7", "8", "9">>

RECURSIVE Str(_)
\* str(x) of an int x >= 0: its decimal digits
Str(x) == IF x < 10 THEN <<Digits[x + 1]>>
          ELSE Str(x \div 10) \o <<Digits[(x % 10) + 1]>>

RECURSIVE StrRep(_)
\* "".join([str(x) for x in exp_coefs])
StrRep(exp_coefs) ==
    IF exp_coefs = <<>> THEN <<>>
    ELSE Str(Head(exp_coefs)) \o StrRep(Tail(exp_coefs))

\* int(x) of a one-character string
IntOfChar(c) == CHOOSE d \in 0..9 : Digits[d + 1] = c

\* [int(x) for x in s]: one coefficient per character
ParseCoefs(s) == [i \in 1..Len(s) |-> IntOfChar(s[i])]

RECURSIVE IntPow(_, _)
\* pow(a, k) of Python ints, k >= 0
IntPow(a, k) == IF k = 0 THEN 1 ELSE a * IntPow(a, k - 1)

\* the exact power is kept as a numeral in base 2^16, least significant first
Limb == 65536

RECURSIVE BitsMul(_, _, _)
\* a numeral times a small a, plus carry
BitsMul(bits, a, carry) ==
    IF bits = <<>>
    THEN IF carry = 0 THEN <<>>
         ELSE <<carry % Limb>> \o BitsMul(<<>>, a, carry \div Limb)
    ELSE LET t == Head(bits) * a + carry
         IN <<t % Limb>> \o BitsMul(Tail(bits), a, t \div Limb)

RECURSIVE BitsPow(_, _)
\* the exact a^k, a >= 1, as a numeral (four factors a at a time)
BitsPow(a, k) ==
    IF k < 4 THEN BitsMul(<<1>>, IntPow(a, k), 0)
    ELSE BitsMul(BitsPow(a, k - 4), IntPow(a, 4), 0)

RECURSIVE BitLen(_)
\* the number of binary digits of x >= 0
BitLen(x) == IF x = 0 THEN 0 ELSE 1 + BitLen(x \div 2)

\* the number of binary digits of a numeral
NumBits(bits) ==
    IF bits = <<>> THEN 0 ELSE 16 * (Len(bits) - 1) + BitLen(bits[Len(bits)])

RECURSIVE BitsInc(_, _, _)
\* the numeral plus v * Limb^(i-1)
BitsInc(bits, i, v) ==
    IF v = 0 THEN bits
    ELSE IF i > Len(bits) THEN Append(bits, v)
    ELSE LET t == bits[i] + v
         IN BitsInc([bits EXCEPT ![i] = t % Limb], i + 1, t \div Limb)

RECURSIVE BitsMod(_, _)
BitsMod(bits, m) ==
    IF bits = <<>> THEN 0 ELSE (Head(bits) + Limb * BitsMod(Tail(bits), m)) % m

\* math.pow of an integer power as an IEEE double (53 significant bits): the
\* power itself when it fits, else one of the two doubles next to it; which of
\* them is the C library's choice, up tells it
RoundDouble(bits, up) ==
    IF NumBits(bits) <= 53 THEN bits
    ELSE LET d    == NumBits(bits) - 53
             q    == d \div 16
             unit == IntPow(2, d % 16)
             mant == [i \in 1..Len(bits) |->
                         IF i <= q THEN 0
                         ELSE IF i = q + 1 THEN bits[i] - (bits[i] % unit)
                         ELSE bits[i]]
         IN IF mant = bits THEN bits
            ELSE IF up THEN BitsInc(mant, q + 1, unit) ELSE mant

\* int(math.pow(a, k)) % m for ints a >= 0, k >= 0
FloatPowMod(a, k, m, up) ==
    IF a = 0 THEN IntVal((IF k = 0 THEN 1 ELSE 0) % m)
    ELSE LET r == RoundDouble(BitsPow(a, k), up)
         IN IF NumBits(r) > 1024 THEN Raise("OverflowError")
            ELSE IntVal(BitsMod(r, m))

\* int(math.pow(p, n)): exact, the orders of the fields built here are far below 2^53
DimOf(fp, fn) == IntPow(fp, fn)

---------------------------------------------------------------------------
(* list operations *)

\* s in list
InList(list, s) == \E i \in 1..Len(list) : list[i] = s

\* list.index(s), for s in list
ListIndex(list, s) ==
    (CHOOSE i \in 1..Len(list) :
        list[i] = s /\ \A j \in 1..(i - 1) : list[j] # s) - 1

---------------------------------------------------------------------------
(* FieldElement, pynitefields/fieldelement.py *)

\* FieldElement.__init__(p, n, exp_coefs, field_list)
FieldElement(fp, fn, exp_coefs, field_list) ==
    LET str_rep == StrRep(exp_coefs)
        self == [kind       |-> "elem",
                 p          |-> fp,
                 n          |-> fn,
                 dim        |-> DimOf(fp, fn),
                 exp_coefs  |-> exp_coefs,
                 str_rep    |-> str_rep,
                 prim_power |-> IF fn = 1 THEN At(exp_coefs, 0) ELSE -1,
                 field_list |-> 0]
    IN IF Len(Deref(field_list)) # 0
       THEN IF InList(Deref(field_list), str_rep)
            THEN [self EXCEPT !.field_list = field_list,
                              !.prim_power = ListIndex(Deref(field_list), str_rep)]
            ELSE Raise("ValueError")
       ELSE self

\* field_list[i] of an element, read as coefficients
EntryCoefs(self, i) ==
    IF i < 0 \/ i >= Len(Deref(self.field_list)) THEN Raise("IndexError")
    ELSE [kind |-> "list", v |-> ParseCoefs(At(Deref(self.field_list), i))]

\* FieldElement.__add__
Add(self, el) ==
    IF el.kind # "elem" THEN Raise("AttributeError")
    ELSE IF self.p # el.p \/ self.n # el.n THEN None
    ELSE IF self.n = 1
    THEN FieldElement(self.p, self.n,
                      <<(self.prim_power + el.prim_power) % self.p>>, 0)
    ELSE FieldElement(self.p, self.n,
                      [i \in 1..self.n |->
                          (self.exp_coefs[i] + el.exp_coefs[i]) % self.p],
                      self.field_list)

\* FieldElement.__sub__
Sub(self, el) ==
    IF el.kind # "elem" THEN Raise("AttributeError")
    ELSE IF self.p # el.p \/ self.n # el.n THEN None
    ELSE IF self.n = 1
    THEN FieldElement(self.p, self.n,
                      <<(self.prim_power - el.prim_power) % self.p>>, 0)
    ELSE FieldElement(self.p, self.n,
                      [i \in 1..self.n |->
                          (self.exp_coefs[i] - el.exp_coefs[i]) % self.p],
                      self.field_list)

\* mutant of MulNewExp: wrapped around with a plain remainder
MulNewExpRemainder(self, el) ==
    (self.prim_power + el.prim_power) % (self.dim - 1)

\* the exponent of a product of two nonzero elements, wrapped around
MulNewExp(self, el) ==
    LET new_exp == self.prim_power + el.prim_power
    IN IF new_exp > self.dim - 1
       THEN ((new_exp - 1) % (self.dim - 1)) + 1
       ELSE new_exp

\* FieldElement.__mul__
Mul(self, el) ==
    IF el.kind = "int"
    THEN FieldElement(self.p, self.n,
                      [i \in 1..Len(self.exp_coefs) |->
                          (el.v * self.exp_coefs[i]) % self.p],
                      self.field_list)
    ELSE IF el.kind = "elem"
    THEN IF self.p # el.p \/ self.n # el.n THEN None
         ELSE IF self.n = 1
         THEN FieldElement(self.p, self.n,
                           <<(self.prim_power * el.prim_power) % self.p>>, 0)
         ELSE IF el.prim_power = 0 \/ self.prim_power = 0
         THEN Try(EntryCoefs(self, 0),
                  LAMBDA c : FieldElement(self.p, self.n, c.v, self.field_list))
         ELSE Try(EntryCoefs(self, MulNewExp(self, el)),
                  LAMBDA c : FieldElement(self.p, self.n, c.v, self.field_list))
    ELSE Raise("TypeError")

\* mutant of InvIndex: off by one
InvIndexOffByOne(self) == self.dim - self.prim_power

\* the index of the inverse of an element that is neither zero nor the last one
InvIndex(self) == self.dim - self.prim_power - 1

\* the scalar i of inv's search in a prime field: the first i in range(0, p)
\* with (prim_power * i) % p == 1; p if there is none
InvSearch(self) ==
    LET hits == {i \in 0..(self.p - 1) : (self.prim_power * i) % self.p = 1}
    IN IF hits = {} THEN self.p
       ELSE CHOOSE i \in hits : \A j \in hits : i <= j

\* mutant of Inv: zero is not set apart
InvOfAny(self) ==
    IF self.n = 1
    THEN IF InvSearch(self) = self.p THEN None
         ELSE FieldElement(self.p, self.n, <<InvSearch(self)>>, 0)
    ELSE IF self.prim_power = self.dim - 1 THEN self
    ELSE Try(EntryCoefs(self, InvIndex(self)),
             LAMBDA c : FieldElement(self.p, self.n, c.v, self.field_list))

\* FieldElement.inv
Inv(self) ==
    IF self.n = 1
    THEN IF self.prim_power = 0 THEN None
         ELSE IF InvSearch(self) = self.p THEN None
         ELSE FieldElement(self.p, self.n, <<InvSearch(self)>>, 0)
    ELSE IF self.prim_power = 0 THEN None
    ELSE IF self.prim_power = self.dim - 1 THEN self
    ELSE Try(EntryCoefs(self, InvIndex(self)),
             LAMBDA c : FieldElement(self.p, self.n, c.v, self.field_list))

\* the operand whose being zero __truediv__ tests before it divides
DivZeroTested(self, el) == self

\* FieldElement.__truediv__
TrueDiv(self, el) ==
    IF el.kind # "elem" THEN None
    ELSE LET t == DivZeroTested(self, el)
         IN IF t.n = 1 /\ t.prim_power = 0 THEN None
            ELSE IF t.n # 1 /\ ~InList(Deref(t.field_list), t.str_rep)
            THEN Raise("ValueError")
            ELSE IF t.n # 1 /\ ListIndex(Deref(t.field_list), t.str_rep) = 0
            THEN None
            ELSE Try(Inv(el), LAMBDA r : Mul(self, r))

\* mutant of PowNewExp: wrapped around with a plain remainder
PowNewExpRemainder(self, exponent) ==
    (self.prim_power * exponent) % (self.dim - 1)

\* the exponent of a power of a nonzero element, wrapped around
PowNewExp(self, exponent) ==
    LET new_exp == self.prim_power * exponent
    IN IF new_exp > self.dim - 1
       THEN ((new_exp - 1) % (self.dim - 1)) + 1
       ELSE new_exp

\* mutant of PowZeroExp: anything to the 0 is the last element, 1
PowZeroExpLast(self) == self.dim - 1

\* the entry __pow__ reads for a zero element or a zero exponent
PowZeroExp(self) == 0

\* FieldElement.__pow__; up is the rounding of math.pow
Pow(self, exponent, up) ==
    IF self.n = 1
    THEN Try(FloatPowMod(self.prim_power, exponent, self.p, up),
             LAMBDA r : FieldElement(self.p, self.n, <<r.v>>, 0))
    ELSE IF self.prim_power = 0 \/ exponent = 0
    THEN Try(EntryCoefs(self, PowZeroExp(self)),
             LAMBDA c : FieldElement(self.p, self.n, c.v, self.field_list))
    ELSE Try(EntryCoefs(self, PowNewExp(self, exponent)),
             LAMBDA c : FieldElement(self.p, self.n, c.v, self.field_list))

\* mutant of Eq: the two tables are compared as objects, not by their contents
EqSameTable(self, el) ==
    IF el.kind # "elem" THEN Raise("AttributeError")
    ELSE BoolVal(/\ self.p = el.p
                 /\ self.n = el.n
                 /\ self.exp_coefs = el.exp_coefs
                 /\ self.field_list = el.field_list)

\* FieldElement.__eq__
Eq(self, el) ==
    IF el.kind # "elem" THEN Raise("AttributeError")
    ELSE BoolVal(/\ self.p = el.p
                 /\ self.n = el.n
                 /\ self.exp_coefs = el.exp_coefs
                 /\ Deref(self.field_list) = Deref(el.field_list))

RECURSIVE TrSum(_, _)
\* the variable sum of tr after the loop's pass i (i = 0: before the loop)
TrSum(self, i) ==
    IF i = 0 THEN self
    ELSE Try(TrSum(self, i - 1),
             LAMBDA s : Try(Pow(self, IntPow(self.p, i), FALSE),
                            LAMBDA t : Add(s, t)))

\* mutant of Tr: the last coefficient of the sum in place of the first
TrLastCoefficient(self) ==
    Try(IF self.n > 1 THEN TrSum(self, self.n - 1) ELSE self,
        LAMBDA s : IF s.kind = "elem" THEN IntVal(At(s.exp_coefs, self.n - 1))
                   ELSE Raise("AttributeError"))

\* FieldElement.tr
Tr(self) ==
    Try(IF self.n > 1 THEN TrSum(self, self.n - 1) ELSE self,
        LAMBDA s : IF s.kind = "elem" THEN IntVal(At(s.exp_coefs, 0))
                   ELSE Raise("AttributeError"))

\* tr(x) of galoisfield.py
tr(x) == IF x.kind # "elem" THEN (IF x.kind = "raise" THEN x ELSE None) ELSE Tr(x)

\* inv(x) of galoisfield.py
inv(x) == IF x.kind # "elem" THEN (IF x.kind = "raise" THEN x ELSE None) ELSE Inv(x)

---------------------------------------------------------------------------
(* GaloisField, pynitefields/galoisfield.py *)

\* mutant of Repeated: the test for a repeated element left out
RepeatedNever(field_list, str_rep) == FALSE

\* the test of the constructor's loop for an element met before
Repeated(field_list, str_rep) == InList(field_list, str_rep)

\* elements[0 .. n-1] of an extension field: zero, then x, x^2, ..., x^(n-1)
BasisElements(gp, gn) ==
    [k \in 1..gn |->
        FieldElement(gp, gn, [i \in 1..gn |-> IF k > 1 /\ i = k THEN 1 ELSE 0], 0)]

\* mutant of NthCoefs: the sign of the coefficients forgotten
NthCoefsUnsigned(gp, gn, gcoefs) == [i \in 1..gn |-> At(gcoefs, i - 1) % gp]

\* the coefficients of x^n, from the irreducible polynomial
NthCoefs(gp, gn, gcoefs) == [i \in 1..gn |-> ((-1) * At(gcoefs, i - 1)) % gp]

RECURSIVE WhichToSum(_, _, _)
\* [elements[i] * coeff for i, coeff in enumerate(next_coefs) if coeff != 0], from i on
WhichToSum(elems, next_coefs, i) ==
    IF i >= Len(next_coefs) THEN <<>>
    ELSE IF At(next_coefs, i) # 0
    THEN <<Mul(At(elems, i), IntVal(At(next_coefs, i)))>>
             \o WhichToSum(elems, next_coefs, i + 1)
    ELSE WhichToSum(elems, next_coefs, i + 1)

RECURSIVE SumAll(_, _)
\* for sum_el in which_to_sum: sum = sum + sum_el
SumAll(sum, which_to_sum) ==
    IF which_to_sum = <<>> THEN sum
    ELSE Try(sum, LAMBDA s :
             Try(Head(which_to_sum), LAMBDA t :
                 SumAll(Add(s, t), Tail(which_to_sum))))

\* one pass of the loop "for el in range(n + 1, dim)"
GenerateStep(g, el) ==
    LET next_coefs == <<0>> \o At(g.elements, el - 1).exp_coefs
        sum        == SumAll(At(g.elements, 0),
                             WhichToSum(g.elements, next_coefs, 0))
    IN IF sum.kind # "elem"
       THEN [status |-> "raise", exc |-> "TypeError"]
       ELSE IF Repeated(g.field_list, sum.str_rep)
       THEN [status |-> "raise", exc |-> "ValueError"]
       ELSE [status     |-> "ok",
             elements   |-> Append(g.elements, sum),
             field_list |-> Append(g.field_list, sum.str_rep)]

RECURSIVE Generate(_, _, _)
\* the passes el = lo .. hi-1 of the loop, in order, up to the first that raises
\* (the range is halved to keep the evaluation shallow)
Generate(g, lo, hi) ==
    IF g.status # "ok" \/ lo >= hi THEN g
    ELSE IF hi = lo + 1 THEN GenerateStep(g, lo)
    ELSE LET mid == (lo + hi) \div 2
         IN Generate(Generate(g, lo, mid), mid, hi)

\* GaloisField.__init__ up to the elements and their strings
GaloisField(gp, gn, gcoefs) ==
    IF gn <= 1 /\ gn # 1 THEN [status |-> "exit"]
    ELSE IF Len(gcoefs) > 0 /\ Len(gcoefs) # gn + 1 THEN [status |-> "exit"]
    ELSE IF gn = 1
    THEN [status     |-> "ok",
          elements   |-> [i \in 1..gp |-> FieldElement(gp, gn, <<i - 1>>, 0)],
          field_list |-> <<>>]
    ELSE IF Len(gcoefs) = 0 THEN [status |-> "raise", exc |-> "AttributeError"]
    ELSE LET basis == BasisElements(gp, gn)
             nth   == FieldElement(gp, gn, NthCoefs(gp, gn, gcoefs), 0)
             elems == Append(basis, nth)
         IN Generate([status     |-> "ok",
                      elements   |-> elems,
                      field_list |-> [i \in 1..Len(elems) |-> elems[i].str_rep]],
                     gn + 1, DimOf(gp, gn))

\* every element is given the list of strings and its place in it
Finalize(elems, field_list) ==
    [i \in 1..Len(elems) |->
        [elems[i] EXCEPT !.field_list = field_list, !.prim_power = i - 1]]

\* mutant of VerifySdb: only the trace of each element with itself is tested
VerifySdbDiagonal(indices) ==
    /\ Len(indices) = n
    /\ \A i \in 0..(n - 1) :
          tr(Mul(At(elements, At(indices, i)), At(elements, At(indices, i)))) = IntVal(1)

\* GaloisField.verify_sdb
VerifySdb(indices) ==
    /\ Len(indices) = n
    /\ \A i \in 0..(n - 1) : \A j \in i..(n - 1) :
          LET trace_result ==
                  tr(Mul(At(elements, At(indices, i)), At(elements, At(indices, j))))
          IN trace_result = IntVal(IF i = j THEN 1 ELSE 0)

\* mutant of SdbCoefs: the basis elements are taken last first
SdbCoefsReversed(element, indices) ==
    [b \in 1..n |-> tr(Mul(element, At(elements, At(indices, n - b)))).v]

\* the expansion coefficients of an element in the self-dual basis
SdbCoefs(element, indices) ==
    [b \in 1..n |-> tr(Mul(element, At(elements, At(indices, b - 1)))).v]

\* mutant of ToSdbRejects: only the number of indices is tested
ToSdbRejectsCount(indices) == n = 1 \/ Len(indices) # n

\* to_sdb returns before it builds anything
ToSdbRejects(indices) == n = 1 \/ ~VerifySdb(indices)

\* mutant of ToSdbWritesNew: the last loop runs before self.elements is assigned
ToSdbWritesOld == FALSE

\* the objects the last loop of to_sdb writes field_list and prim_power to are
\* those of new_elements: self.elements names the new list by then
ToSdbWritesNew == TRUE

\* mutant of NewElements: the new element at k is made from the old one after it
NewElementsShifted(indices) ==
    [k \in 1..Len(elements) |->
        FieldElement(p, n, SdbCoefs(elements[(k % Len(elements)) + 1], indices), 0)]

\* new_elements of to_sdb
NewElements(indices) ==
    [k \in 1..Len(elements) |-> FieldElement(p, n, SdbCoefs(elements[k], indices), 0)]

\* a * b of Python: an int on the left hands over to __rmul__ of the right
PyTimes(a, b) ==
    IF a.kind = "elem" THEN Mul(a, b)
    ELSE IF a.kind = "int" /\ b.kind = "elem" THEN Mul(b, a)
    ELSE IF a.kind = "int" /\ b.kind = "int" THEN IntVal(a.v * b.v)
    ELSE Raise("TypeError")

\* result += term of Python
PyPlus(result, term) ==
    IF result.kind = "elem" THEN Add(result, term)
    ELSE IF result.kind = "int" /\ term.kind = "int" THEN IntVal(result.v + term.v)
    ELSE Raise("TypeError")

\* self.elements[-1], which evaluate multiplies coefs[0] with
EvaluateOne == elements[Len(elements)]

RECURSIVE EvaluateLoop(_, _, _)
\* the variable result of evaluate after the loop's pass i (i = 0: before it)
EvaluateLoop(cs, argument, i) ==
    IF i = 0 THEN PyTimes(cs[1], EvaluateOne)
    ELSE Try(EvaluateLoop(cs, argument, i - 1),
             LAMBDA result :
                 Try(Pow(argument, i, FALSE),
                     LAMBDA w : Try(PyTimes(cs[i + 1], w),
                                    LAMBDA term : PyPlus(result, term))))

\* GaloisField.evaluate
Evaluate(cs, argument) ==
    IF Len(cs) = 0 THEN Raise("IndexError")
    ELSE EvaluateLoop(cs, argument, Len(cs) - 1)

\* GaloisField.is_sdb
IsSdb == BoolVal(bool_sdb)

\* GaloisField.__getitem__ of pynitefields/galoisfield.py: a negative index
\* counts from the end of the list, and one before its start raises
GetItem(index) ==
    IF index < dim
    THEN IF index >= 0 THEN elements[index + 1]
         ELSE IF Len(elements) + index >= 0 THEN elements[Len(elements) + index + 1]
         ELSE Raise("IndexError")
    ELSE None

\* GaloisField.__getitem__ of src/pynitefields/galoisfield.py
GetItemPackaged(idx) ==
    IF idx < dim /\ idx >= 0 THEN elements[idx + 1] ELSE None

---------------------------------------------------------------------------
(* The arguments the client draws from *)

Primes == {2, 3, 5, 7, 11}

RECURSIVE Tuples(_, _)
Tuples(S, k) ==
    IF k = 0 THEN {<<>>}
    ELSE {<<x>> \o t : x \in S, t \in Tuples(S, k - 1)}

RECURSIVE SortedTuples(_, _, _)
SortedTuples(lo, hi, k) ==
    IF k = 0 THEN {<<>>}
    ELSE UNION {{<<x>> \o t : t \in SortedTuples(x + 1, hi, k - 1)} : x \in lo..hi}

\* every coefficient list of GF(2^2), GF(2^3), GF(3^2); the fields of the tests;
\* a field with coefficients of two digits; calls the constructor refuses;
\* GF(13^2) of the primitive polynomial 2 + x + x^2
Inputs ==
    {<<q, 1, <<>>>> : q \in Primes}
    \cup UNION {{<<f[1], f[2], c>> : c \in Tuples(0..(f[1] - 1), f[2] + 1)} :
                   f \in {<<2, 2>>, <<2, 3>>, <<3, 2>>}}
    \cup {<<2, 4, <<1, 1, 0, 0, 1>>>>, <<3, 3, <<1, 2, 0, 1>>>>, <<11, 2, <<2, 4, 1>>>>}
    \cup {<<2, 0, <<>>>>, <<3, 2, <<>>>>, <<3, 2, <<1, 1>>>>,
          <<5, 1, <<1, 1, 1>>>>, <<5, 1, <<1, 1>>>>}
    \cup {<<13, 2, <<2, 1, 1>>>>}

Indices == 0..(dim - 1)

\* a coefficient of evaluate: the int c, or the element f[i]
CoefArgs ==
    {<<"int", c>> : c \in 0..MaxCoef}
        \cup {<<"f", i>> : i \in {j \in 0..MaxCoef : j < dim}}

\* the lists of up to MaxCoefs coefficients
CoefLists == UNION {Tuples(CoefArgs, k) : k \in 0..MaxCoefs}

\* the places of the arguments of evaluate
EvalArgs == {i \in 0..MaxArg : i < dim}

\* the value a coefficient stands for
Coef(d) == IF d[1] = "int" THEN IntVal(d[2]) ELSE At(elements, d[2])

Exponents == 0..MaxExp \cup {dim - 1}

\* the lists of n, and of n - 1, increasing indices up to MaxBasisIndex
IndexLists ==
    LET hi == IF dim - 1 < MaxBasisIndex THEN dim - 1 ELSE MaxBasisIndex
    IN SortedTuples(0, hi, n) \cup SortedTuples(0, hi, n - 1)

\* the integers f[...] is called with
IndexArgs == (-(dim + 2))..(dim + 1)

---------------------------------------------------------------------------
(* The client and its calls *)

Idle == [op |-> "none", args |-> <<>>, out |-> None]

\* nothing kept from before a to_sdb
NoCapture == [elements |-> <<>>, bool_sdb |-> FALSE]

\* no second field
NoOther == [elements |-> <<>>, field_list |-> <<>>]

Init ==
    /\ pc = "start"
    /\ \E a \in Inputs : p = a[1] /\ n = a[2] /\ coefs = a[3]
    /\ dim = 0
    /\ elements = <<>>
    /\ bool_sdb = FALSE
    /\ lists = <<>>
    /\ last = Idle
    /\ captured = NoCapture
    /\ other = NoOther

\* f = GaloisField(p, n, coefs)
Construct ==
    /\ pc = "start"
    /\ LET g == GaloisField(p, n, coefs)
       IN IF g.status = "ok"
          THEN /\ pc' = "returned"
               /\ dim' = DimOf(p, n)
               /\ lists' = IF n = 1 THEN lists ELSE Append(lists, g.field_list)
               /\ elements' = IF n = 1 THEN g.elements
                              ELSE Finalize(g.elements, Len(lists) + 1)
               /\ bool_sdb' = FALSE
               /\ last' = [op |-> "GaloisField", args |-> <<>>, out |-> None]
          ELSE /\ pc' = IF g.status = "exit" THEN "exit" ELSE "raised"
               /\ last' = [op |-> "GaloisField", args |-> <<>>,
                           out |-> Raise(IF g.status = "exit" THEN "SystemExit"
                                         ELSE g.exc)]
               /\ UNCHANGED <<dim, elements, bool_sdb, lists>>
    /\ UNCHANGED <<p, n, coefs, captured, other>>

\* a call that leaves the field as it is
Returns(op, args, out) ==
    /\ pc = "ready"
    /\ pc' = "returned"
    /\ last' = [op |-> op, args |-> args, out |-> out]
    /\ UNCHANGED <<p, n, coefs, dim, elements, bool_sdb, lists, captured, other>>

\* f[i] + f[j]
CallAdd(i, j) == Returns("add", <<i, j>>, Add(At(elements, i), At(elements, j)))

\* f[i] - f[j]
CallSub(i, j) == Returns("sub", <<i, j>>, Sub(At(elements, i), At(elements, j)))

\* f[i] * f[j]
CallMul(i, j) == Returns("mul", <<i, j>>, Mul(At(elements, i), At(elements, j)))

\* f[i] / f[j]
CallDiv(i, j) == Returns("div", <<i, j>>, TrueDiv(At(elements, i), At(elements, j)))

\* pow(f[i], k)
CallPow(i, k, up) == Returns("pow", <<i, k>>, Pow(At(elements, i), k, up))

\* inv(f[i])
CallInv(i) == Returns("inv", <<i>>, inv(At(elements, i)))

\* tr(f[i])
CallTr(i) == Returns("tr", <<i>>, tr(At(elements, i)))

\* old = list(f); was = f.is_sdb(); f.to_sdb(indices); `captured` is what the
\* client reads from the objects of old after the call
ToSdb(indices) ==
    /\ pc = "ready"
    /\ Len(lists) <= MaxSdb
    /\ pc' = "returned"
    /\ last' = [op |-> "to_sdb", args |-> indices, out |-> None]
    /\ IF ToSdbRejects(indices)
       THEN /\ captured' = [elements |-> elements, bool_sdb |-> bool_sdb]
            /\ UNCHANGED <<elements, bool_sdb, lists>>
       ELSE LET new_elements == NewElements(indices)
                field_list   == [k \in 1..Len(new_elements) |->
                                    StrRep(new_elements[k].exp_coefs)]
            IN /\ lists' = Append(lists, field_list)
               /\ elements' = IF ToSdbWritesNew
                               THEN Finalize(new_elements, Len(lists) + 1)
                               ELSE new_elements
               /\ captured' = [elements |-> IF ToSdbWritesNew THEN elements
                                            ELSE Finalize(elements, Len(lists) + 1),
                               bool_sdb |-> bool_sdb]
               /\ bool_sdb' = TRUE
    /\ UNCHANGED <<p, n, coefs, dim, other>>

\* f[i] == f[j]
CallEq(i, j) == Returns("eq", <<i, j>>, Eq(At(elements, i), At(elements, j)))

\* g = GaloisField(p, n, coefs), a second field from the same arguments
MakeOther ==
    /\ pc = "ready"
    /\ pc' = "other"
    /\ LET g == GaloisField(p, n, coefs)
       IN other' = [elements   |-> IF n = 1 THEN g.elements
                                  ELSE Finalize(g.elements, -1),
                    field_list |-> g.field_list]
    /\ UNCHANGED <<p, n, coefs, dim, elements, bool_sdb, lists, last, captured>>

\* f[i] == g[j]; del g
CompareOther(i, j) ==
    /\ pc = "other"
    /\ pc' = "returned"
    /\ last' = [op |-> "eq_other", args |-> <<i, j>>,
                out |-> Eq(At(elements, i), At(other.elements, j))]
    /\ other' = NoOther
    /\ UNCHANGED <<p, n, coefs, dim, elements, bool_sdb, lists, captured>>

\* f.verify_sdb(indices)
CallVerifySdb(indices) ==
    Returns("verify_sdb", indices, BoolVal(VerifySdb(indices)))

\* f.is_sdb()
CallIsSdb == Returns("is_sdb", <<>>, IsSdb)

\* f[index], with pynitefields/galoisfield.py
CallGetItem(index) == Returns("getitem", <<index>>, GetItem(index))

\* f[idx], with src/pynitefields/galoisfield.py, the copy setup.py packages
CallGetItemPackaged(idx) ==
    Returns("getitem_packaged", <<idx>>, GetItemPackaged(idx))

\* f.evaluate(cs, f[a])
CallEvaluate(cs, a) ==
    Returns("evaluate", <<cs, a>>,
            Evaluate([i \in 1..Len(cs) |-> Coef(cs[i])], At(elements, a)))

\* the client takes the outcome and goes on
Resume ==
    /\ pc = "returned"
    /\ pc' = "ready"
    /\ last' = Idle
    /\ captured' = NoCapture
    /\ UNCHANGED <<p, n, coefs, dim, elements, bool_sdb, lists, other>>

Next ==
    \/ Construct
    \/ pc = "ready" /\ \E i \in Indices, j \in Indices : CallAdd(i, j)
    \/ pc = "ready" /\ \E i \in Indices, j \in Indices : CallSub(i, j)
    \/ pc = "ready" /\ \E i \in Indices, j \in Indices : CallMul(i, j)
    \/ pc = "ready" /\ \E i \in Indices, j \in Indices : CallDiv(i, j)
    \/ pc = "ready" /\ \E i \in Indices, k \in Exponents, up \in BOOLEAN : CallPow(i, k, up)
    \/ pc = "ready" /\ \E i \in Indices : CallInv(i)
    \/ pc = "ready" /\ \E i \in Indices : CallTr(i)
    \/ pc = "ready" /\ \E indices \in IndexLists : ToSdb(indices)
    \/ pc = "ready" /\ \E i \in Indices, j \in Indices : CallEq(i, j)
    \/ MakeOther
    \/ pc = "other" /\ \E i \in Indices, j \in Indices : CompareOther(i, j)
    \/ pc = "ready" /\ \E indices \in IndexLists : CallVerifySdb(indices)
    \/ pc = "ready" /\ CallIsSdb
    \/ pc = "ready" /\ \E index \in IndexArgs : CallGetItem(index)
    \/ pc = "ready" /\ \E idx \in IndexArgs : CallGetItemPackaged(idx)
    \/ pc = "ready" /\ \E cs \in CoefLists, a \in EvalArgs : CallEvaluate(cs, a)
    \/ Resume

Spec == Init /\ [][Next]_vars

---------------------------------------------------------------------------
(* What the claims speak of *)

\* the constructor returned a field
Built == pc \in {"ready", "returned"}

\* the last call was op and the table is the one it ran on
Called(op) == pc = "returned" /\ last.op = op

\* a == b of Python, for two elements
PyEq(a, b) == a.kind = "elem" /\ b.kind = "elem" /\ Eq(a, b) = BoolVal(TRUE)

\* the place of the multiplicative identity in the table
OneIndex == IF n = 1 THEN 1 ELSE dim - 1

\* every coefficient of the element is written with one digit
OneDigit(e) == \A i \in 1..Len(e.exp_coefs) : e.exp_coefs[i] < 10

(* Polynomials over GF(q) modulo the monic polynomial x^m + sum f[i] x^(i-1), *)
(* as vectors of m coefficients, lowest first: the arithmetic of the textbook. *)

RefUnit(m) == [i \in 1..m |-> IF i = 1 THEN 1 ELSE 0]

RefMulX(v, f, q) ==
    [i \in 1..Len(v) |-> ((IF i = 1 THEN 0 ELSE v[i - 1]) - v[Len(v)] * f[i]) % q]

RECURSIVE RefHorner(_, _, _, _, _)
RefHorner(a, b, f, q, i) ==
    IF i > Len(a) THEN [k \in 1..Len(a) |-> 0]
    ELSE LET rest == RefMulX(RefHorner(a, b, f, q, i + 1), f, q)
         IN [k \in 1..Len(a) |-> (a[i] * b[k] + rest[k]) % q]

RefMul(a, b, f, q) == RefHorner(a, b, f, q, 1)

RECURSIVE RefXPow(_, _, _)
\* x^k
RefXPow(k, f, q) ==
    IF k = 0 THEN RefUnit(Len(f))
    ELSE IF k % 2 = 0
    THEN LET h == RefXPow(k \div 2, f, q) IN RefMul(h, h, f, q)
    ELSE RefMulX(RefXPow(k - 1, f, q), f, q)

\* x^m + sum f[i] x^(i-1) is primitive: x has order q^m - 1
RefPrimitiveMonic(q, m, f) ==
    LET N == IntPow(q, m) - 1
    IN /\ RefXPow(N, f, q) = RefUnit(m)
       /\ \A d \in 1..(N - 1) : N % d = 0 => RefXPow(d, f, q) # RefUnit(m)

\* the polynomial sum c[i] x^(i-1) is a primitive polynomial of degree m: its
\* leading coefficient is not 0 and, made monic, it is primitive
RefPrimitive(q, m, c) ==
    /\ c[m + 1] % q # 0
    /\ LET u == CHOOSE u \in 1..(q - 1) : (u * c[m + 1]) % q = 1
       IN RefPrimitiveMonic(q, m, [i \in 1..m |-> (u * c[i]) % q])

\* the constructor was called for an extension field with n + 1 coefficients
ExtensionCall == pc # "start" /\ last.op = "GaloisField" /\ n > 1 /\ Len(coefs) = n + 1

\* the constructor raised the ValueError of a repeated element and left no field
RaisedPrimitivity ==
    pc = "raised" /\ last.out = Raise("ValueError") /\ elements = <<>>

---------------------------------------------------------------------------
(* The claims *)

\* C1: in every state of a constructed field, after the constructor and after
\* any to_sdb, the table has dim = p^n entries, every coordinate vector has n
\* coordinates in [0, p), and the vectors are pairwise distinct.
C1_TableDistinct ==
    Built =>
        /\ dim = IntPow(p, n)
        /\ Len(elements) = dim
        /\ \A k \in 1..Len(elements) :
              /\ Len(elements[k].exp_coefs) = n
              /\ \A i \in 1..n : elements[k].exp_coefs[i] \in 0..(p - 1)
        /\ Cardinality({elements[k].exp_coefs : k \in 1..Len(elements)}) = dim

\* C1: an extension field after a to_sdb that went through
C1_Witness ==
    Called("to_sdb") /\ bool_sdb /\ Len(lists) = 2 /\ Len(elements) = dim /\ n > 1

\* C2, as stated: for n > 1 every vector of n + 1 coefficients whose polynomial
\* is not a primitive polynomial of degree n makes the constructor raise the
\* ValueError and leaves no field.
C2_NonPrimitiveRaises ==
    (ExtensionCall /\ ~RefPrimitive(p, n, coefs)) => RaisedPrimitivity

\* C2, amended: the constructor raises the ValueError and leaves no field
\* whenever x^n + sum of coefs[i] x^i over i < n, the polynomial it builds the
\* table from (coefs[n] is never read), is not primitive.
C2_NonPrimitiveMonicRaises ==
    (ExtensionCall /\ ~RefPrimitiveMonic(p, n, SubSeq(coefs, 1, n)))
        => RaisedPrimitivity

\* C2: a reducible polynomial of GF(3^2) was refused
C2_Witness ==
    /\ ExtensionCall /\ RaisedPrimitivity
    /\ p = 3 /\ coefs = <<2, 0, 1>>
    /\ ~RefPrimitiveMonic(p, n, SubSeq(coefs, 1, n))

C4_Inverse ==
    (Called("inv") /\ last.args[1] # 0) =>
        LET e == At(elements, last.args[1])
        IN /\ last.out.kind = "elem"
           /\ PyEq(Mul(e, last.out), At(elements, OneIndex))
           /\ n > 1 => IF e.prim_power = dim - 1 THEN last.out = e
                       ELSE last.out.prim_power = (dim - 1) - e.prim_power

\* C4: the inverse of an element of an extension field other than zero and one
C4_Witness ==
    /\ Called("inv") /\ n > 1 /\ last.args[1] \in 1..(dim - 2)
    /\ last.out.kind = "elem" /\ last.out.prim_power # last.args[1]

\* C5, as stated: in an extension field the product of the nonzero elements of
\* indices i and j has the coordinates of table[i+j] when i+j <= dim-1, else of
\* table[((i+j-1) mod (dim-1)) + 1]; that index is in [1, dim-1] and the product
\* is never the zero element.
C5_ProductIndex ==
    (Called("mul") /\ n > 1 /\ last.args[1] # 0 /\ last.args[2] # 0) =>
        LET i   == last.args[1]
            j   == last.args[2]
            idx == IF i + j <= dim - 1 THEN i + j
                   ELSE ((i + j - 1) % (dim - 1)) + 1
        IN /\ idx \in 1..(dim - 1)
           /\ last.out.kind = "elem"
           /\ last.out.exp_coefs = At(elements, idx).exp_coefs
           /\ last.out.exp_coefs # At(elements, 0).exp_coefs

\* C6, as stated: for every element e, e + zero == e, e * zero == zero,
\* zero * e == zero and e * one == e, for n = 1 and n > 1.
C6_ZeroAndOne ==
    /\ (Called("add") /\ last.args[2] = 0)
          => PyEq(last.out, At(elements, last.args[1]))
    /\ (Called("mul") /\ (last.args[1] = 0 \/ last.args[2] = 0))
          => PyEq(last.out, At(elements, 0))
    /\ (Called("mul") /\ last.args[2] = OneIndex)
          => PyEq(last.out, At(elements, last.args[1]))

\* C7, as stated: for every element a, zero too, and every nonzero b, a / b
\* returns an element equal to a * inverse(b), and (a / b) * b == a.
C7_Division ==
    (Called("div") /\ last.args[2] # 0) =>
        LET a == At(elements, last.args[1])
            b == At(elements, last.args[2])
        IN /\ last.out.kind = "elem"
           /\ PyEq(last.out, Mul(a, Inv(b)))
           /\ PyEq(Mul(last.out, b), a)

\* C8, as stated: a / b with b the zero element ends in the division-by-zero
\* outcome (the message, and None in place of an element), for n = 1 and n > 1,
\* and that outcome is decided by the divisor b alone.
C8_DivisionByZero ==
    Called("div") => (last.out = None <=> last.args[2] = 0)

\* C9: for every nonzero e of an extension field, pow(e, dim - 1) is the
\* multiplicative identity, the element of index dim - 1.
C9_GroupOrder ==
    (Called("pow") /\ n > 1 /\ last.args[1] # 0 /\ last.args[2] = dim - 1)
        => PyEq(last.out, At(elements, dim - 1))

\* C9: a power dim - 1 in the field of 121 elements
C9_Witness ==
    /\ Called("pow") /\ p = 11 /\ n = 2 /\ last.args = <<5, dim - 1>>
    /\ last.out.kind = "elem" /\ last.out.prim_power = dim - 1

RECURSIVE RefModPow(_, _, _)
\* a^k mod m
RefModPow(a, k, m) == IF k = 0 THEN 1 % m ELSE (a * RefModPow(a, k - 1, m)) % m

RECURSIVE KFold(_, _)
\* e * e * ... * e, k factors, with the multiply operator
KFold(e, k) == IF k = 1 THEN e ELSE Mul(KFold(e, k - 1), e)

\* C10, as stated: for every element e and k >= 1, pow(e, k) is the k-fold
\* product of e with the multiply operator (compared here for k <= MaxExp); for
\* n = 1 it is value^k mod p, for n > 1 and e nonzero the table entry of index
\* prim_power * k, wrapped around as in multiply.
C10_Power ==
    (Called("pow") /\ last.args[2] >= 1) =>
        LET e   == At(elements, last.args[1])
            k   == last.args[2]
            idx == IF e.prim_power * k > dim - 1
                   THEN ((e.prim_power * k - 1) % (dim - 1)) + 1
                   ELSE e.prim_power * k
        IN /\ last.out.kind = "elem"
           /\ n = 1 => last.out.exp_coefs = <<RefModPow(e.prim_power, k, p)>>
           /\ (n > 1 /\ e.prim_power # 0)
                 => last.out.exp_coefs = At(elements, idx).exp_coefs
           /\ k <= MaxExp => PyEq(last.out, KFold(e, k))

\* C11: in an extension field pow(e, k) is the zero element whenever e is the
\* zero element or k = 0, so pow(e, 0) is zero and not the multiplicative
\* identity, for nonzero e too.
C11_PowZero ==
    (Called("pow") /\ n > 1 /\ (last.args[1] = 0 \/ last.args[2] = 0)) =>
        /\ PyEq(last.out, At(elements, 0))
        /\ ~PyEq(last.out, At(elements, dim - 1))

\* C11: a nonzero element of an extension field to the 0
C11_Witness ==
    /\ Called("pow") /\ n > 1 /\ last.args[1] # 0 /\ last.args[2] = 0
    /\ last.out.kind = "elem" /\ last.out.prim_power = 0

RECURSIVE RefTraceSum(_, _)
\* e + e^p + ... + e^(p^i), with the add and power operators
RefTraceSum(e, i) ==
    IF i = 0 THEN e
    ELSE Add(RefTraceSum(e, i - 1), Pow(e, IntPow(p, i), FALSE))

\* C12: tr(e) is the first coordinate of e + e^p + ... + e^(p^(n-1)) computed
\* with the add and power operators; for n = 1 it is e's scalar value; in
\* GF(3^3) of 1 + 2x + x^3 the traces of elements 0 and 11 are 0 and 2.
C12_Trace ==
    Called("tr") =>
        LET e == At(elements, last.args[1])
        IN /\ last.out.kind = "int"
           /\ n > 1 => /\ RefTraceSum(e, n - 1).kind = "elem"
                       /\ last.out.v = At(RefTraceSum(e, n - 1).exp_coefs, 0)
           /\ n = 1 => last.out.v = last.args[1]
           /\ (p = 3 /\ n = 3 /\ coefs = <<1, 2, 0, 1>> /\ ~bool_sdb)
                 => /\ last.args[1] = 0 => last.out.v = 0
                    /\ last.args[1] = 11 => last.out.v = 2

\* C12: the trace of element 11 of GF(3^3)
C12_Witness ==
    /\ Called("tr") /\ p = 3 /\ n = 3 /\ ~bool_sdb /\ last.args = <<11>>
    /\ last.out = IntVal(2)

---------------------------------------------------------------------------
(* C13: equality of elements *)

\* C13 as stated: two elements are equal only if they share one table object, so
\* an element of f never equals an element of a second field g built from the
\* same p, n and polynomial.
C13_TableIdentity ==
    Called("eq_other") /\ n > 1 => last.out = BoolVal(FALSE)

\* C13, amended: two elements are equal if and only if they have the same p, the
\* same n, the same coordinates and tables of equal contents.  Within one field
\* f[i] == f[j] exactly when i = j; f[i] == g[j], for g built from the same
\* arguments, exactly when i = j and f still has the table it was built with.
C13_Equality ==
    /\ Called("eq") =>
          LET a == elements[last.args[1] + 1]
              b == elements[last.args[2] + 1]
          IN /\ last.out = BoolVal(/\ a.p = b.p /\ a.n = b.n
                                   /\ a.exp_coefs = b.exp_coefs
                                   /\ Deref(a.field_list) = Deref(b.field_list))
             /\ last.out = BoolVal(last.args[1] = last.args[2])
    /\ Called("eq_other") =>
          last.out = BoolVal(last.args[1] = last.args[2] /\ ~bool_sdb)

\* f[i] == g[i] was True in an extension field, for two tables built apart
C13_Witness ==
    /\ Called("eq_other") /\ n > 1 /\ ~bool_sdb
    /\ last.args[1] = last.args[2]
    /\ last.out = BoolVal(TRUE)

---------------------------------------------------------------------------
(* C14: verify_sdb *)

\* trace(table[a] * table[b]), with the code's product and trace
RefTraceForm(table, a, b) == tr(Mul(table[a + 1], table[b + 1]))

\* the listed elements of the table are n elements, each of trace form 1 with
\* itself and 0 with every later one
RefSelfDual(table, indices) ==
    /\ Len(indices) = n
    /\ \A i \in 1..n : RefTraceForm(table, indices[i], indices[i]) = IntVal(1)
    /\ \A i \in 1..n : \A j \in (i + 1)..n :
          RefTraceForm(table, indices[i], indices[j]) = IntVal(0)

\* C14: verify_sdb(indices) returns True if and only if there are n indices, the
\* trace of e_i * e_i is 1 for every listed element and the trace of e_i * e_j
\* is 0 for every pair i < j of them; with another number of indices it returns
\* False.  In GF(2^2) of 1 + x + x^2 only the elements 1 and 2 pass.
C14_VerifySdb ==
    Called("verify_sdb") =>
        /\ last.out = BoolVal(RefSelfDual(elements, last.args))
        /\ Len(last.args) # n => last.out = BoolVal(FALSE)
        /\ (p = 2 /\ n = 2 /\ ~bool_sdb)
              => (last.out = BoolVal(TRUE) <=> last.args = <<1, 2>>)

\* C14: a list of three elements of GF(3^3) passed the verification
C14_Witness ==
    /\ Called("verify_sdb") /\ p = 3 /\ n = 3 /\ Len(last.args) = 3
    /\ last.out = BoolVal(TRUE)

---------------------------------------------------------------------------
(* C15, C16, C17: to_sdb *)

\* the table f had when to_sdb was called
Old == captured.elements

\* C15: when n > 1 and the indices pass the verification, to_sdb(indices) puts a
\* new table in place of the field's: the coordinates of elements[k] are the
\* traces of old[k] * old[indices[i]], i = 0..n-1; every new element has
\* prim_power k and refers to the new list of strings, which spells the new
\* coordinates; and is_sdb() is True.
C15_ToSdb ==
    Called("to_sdb") /\ n > 1 /\ RefSelfDual(Old, last.args) =>
        /\ Len(elements) = Len(Old)
        /\ \A k \in 1..Len(elements) :
              /\ elements[k].exp_coefs =
                     [i \in 1..n |-> RefTraceForm(Old, k - 1, last.args[i]).v]
              /\ elements[k].prim_power = k - 1
              /\ elements[k].field_list = Len(lists)
              /\ Old[k].field_list < Len(lists)
              /\ lists[Len(lists)][k] = StrRep(elements[k].exp_coefs)
        /\ Len(lists[Len(lists)]) = Len(elements)
        /\ bool_sdb
        /\ IsSdb = BoolVal(TRUE)

\* C15: GF(3^3) went from the polynomial basis to a self-dual basis
C15_Witness ==
    /\ Called("to_sdb") /\ p = 3 /\ n = 3
    /\ RefSelfDual(Old, last.args)
    /\ ~captured.bool_sdb /\ bool_sdb
    /\ elements # Old

\* C16: to_sdb(indices) on a prime field, or with indices that fail the
\* verification (another number than n, or not orthonormal under the trace
\* form), builds nothing: it returns None and the field has the table and the
\* basis flag it had before the call.
C16_ToSdbRejected ==
    Called("to_sdb") /\ (n = 1 \/ ~RefSelfDual(Old, last.args)) =>
        /\ elements = Old
        /\ bool_sdb = captured.bool_sdb
        /\ IsSdb = BoolVal(captured.bool_sdb)
        /\ \A k \in 1..Len(elements) : elements[k].field_list <= Len(lists)
        /\ n > 1 => elements[1].field_list = Len(lists)
        /\ last.out = None

\* C16: n indices that are not orthonormal were refused by a field that is in
\* a self-dual basis, which it stays in
C16_Witness ==
    /\ Called("to_sdb") /\ n > 1 /\ Len(last.args) = n
    /\ ~RefSelfDual(Old, last.args)
    /\ captured.bool_sdb /\ bool_sdb /\ elements = Old

\* to_sdb built a new table
Transformed == Called("to_sdb") /\ Len(Old) > 0 /\ elements[1].field_list # Old[1].field_list

\* C17 as stated: after a successful to_sdb every element captured before the
\* transform is unequal to every element of the new table.
C17_OldNeverEqualsNew ==
    Transformed =>
        \A i \in 1..Len(Old) : \A j \in 1..Len(elements) : ~PyEq(Old[i], elements[j])

\* C17, amended: after a successful to_sdb an element captured before the
\* transform equals an element of the new table exactly when the new list of
\* strings has the contents of the old one and the two elements have the same
\* place; so old and new are unequal throughout unless the transform has
\* reproduced the table, and then old[k] == new[k] for every k.
C17_OldEqualsNewOnlyIfSameContents ==
    Transformed =>
        \A i \in 1..Len(Old) : \A j \in 1..Len(elements) :
            PyEq(Old[i], elements[j])
                <=> (i = j /\ Deref(Old[1].field_list) = Deref(elements[1].field_list))

\* C17: a field in a self-dual basis was transformed again and an element
\* captured before equals the element that took its place
C17_Witness ==
    /\ Transformed /\ n > 1 /\ captured.bool_sdb
    /\ PyEq(Old[2], elements[2])

---------------------------------------------------------------------------
(* C18: the inverse of zero *)

\* C18: the inverse of the zero element, f[0], is refused and no element comes
\* back, whether n = 1 or n > 1 and whether asked with f[0].inv() or inv(f[0]).
C18_InverseOfZero ==
    Called("inv") /\ last.args = <<0>> =>
        /\ (n = 1 => elements[1].exp_coefs = <<0>>)
        /\ (n > 1 => elements[1].prim_power = 0)
        /\ Inv(elements[1]) = None
        /\ inv(elements[1]) = None
        /\ last.out = None

\* C18: inv(f[0]) in an extension field
C18_Witness ==
    Called("inv") /\ last.args = <<0>> /\ n > 1 /\ last.out = None

---------------------------------------------------------------------------
(* C19: Field[index] *)

\* C19: f[index] is elements[index] for every index in [0, dim), and for every
\* other integer index, negative or >= dim, it is refused and gives no element.
C19_GetItem ==
    Called("getitem") =>
        LET index == last.args[1]
        IN IF 0 <= index /\ index < dim
           THEN last.out = elements[index + 1]
           ELSE last.out = None

---------------------------------------------------------------------------
(* C20: the constructor's refusals *)

\* C20: GaloisField(p, n, coefs) stops with the configuration error, and returns
\* no field, exactly when n < 1 or n > 1 and len(coefs) # n + 1, an empty coefs
\* included; for n = 1, and for n > 1 with n + 1 coefficients, it does not.
C20_ConfigError ==
    pc \in {"returned", "exit", "raised"} /\ last.op = "GaloisField" =>
        (last.out = Raise("SystemExit")
            <=> (n < 1 \/ (n > 1 /\ Len(coefs) # n + 1)))

---------------------------------------------------------------------------
(* C21: evaluate *)

RECURSIVE RefEvaluate(_, _, _)
\* cs[0] * one + the sum over 1 <= k <= i of cs[k] * argument^k
RefEvaluate(cs, argument, i) ==
    IF i = 0 THEN PyTimes(cs[1], At(elements, OneIndex))
    ELSE PyPlus(RefEvaluate(cs, argument, i - 1),
                PyTimes(cs[i + 1], Pow(argument, i, FALSE)))

\* C21: evaluate(coefs, argument) is coefs[0] * one + the sum over i >= 1 of
\* coefs[i] * argument^i, one being the multiplicative identity of the field,
\* for coefficients that are ints and elements, in prime and extension fields.
C21_Evaluate ==
    Called("evaluate") /\ Len(last.args[1]) > 0 =>
        LET cs == [i \in 1..Len(last.args[1]) |-> Coef(last.args[1][i])]
        IN last.out = RefEvaluate(cs, At(elements, last.args[2]), Len(cs) - 1)

---------------------------------------------------------------------------
(* C22: addition and subtraction *)

\* the coordinates of a and b added (sign = 1) or subtracted (sign = -1), modulo p
RefVectorSum(a, b, sign) ==
    [i \in 1..n |-> (a.exp_coefs[i] + sign * b.exp_coefs[i]) % p]

\* subtracting b undoes adding it, and adding b undoes subtracting it
RefUndoes(a, b) ==
    /\ Sub(a, b).kind = "elem" /\ PyEq(Add(Sub(a, b), b), a)
    /\ Add(a, b).kind = "elem" /\ PyEq(Sub(Add(a, b), b), a)

\* C22, of the elements of the table: f[i] + f[j] and f[i] - f[j] have the
\* coordinates of the two added and subtracted modulo p, each in [0, p), and
\* (a - b) + b == a and (a + b) - b == a.
C22_AddSubOfTable ==
    Called("add") \/ Called("sub") =>
        LET a == At(elements, last.args[1])
            b == At(elements, last.args[2])
        IN /\ last.out.kind = "elem"
           /\ last.out.exp_coefs = RefVectorSum(a, b, IF last.op = "add" THEN 1 ELSE -1)
           /\ \A i \in 1..n : last.out.exp_coefs[i] \in 0..(p - 1)
           /\ RefUndoes(a, b)

\* C22: the same of every two elements of the field, a product f[i] * f[j]
\* among them: its sum and difference with f[j] are the coordinates added and
\* subtracted, and subtracting undoes adding.
C22_AddSub ==
    /\ C22_AddSubOfTable
    /\ Called("mul") /\ last.out.kind = "elem" =>
          LET a == last.out
              b == At(elements, last.args[2])
          IN /\ Len(a.exp_coefs) = n
             /\ Add(a, b).kind = "elem"
             /\ Add(a, b).exp_coefs = RefVectorSum(a, b, 1)
             /\ RefUndoes(a, b)

---------------------------------------------------------------------------
(* C23: the table of the polynomial basis *)

\* the coefficients below the leading one of the polynomial the table is built from
RefLow == [i \in 1..n |-> coefs[i] % p]

\* C23: for n > 1 the constructor leaves table[0] the zero vector, table[i] the
\* unit vector of alpha^i for 1 <= i <= n - 1, table[n][i] = (-coefs[i]) mod p,
\* and every table[k], 1 <= k <= dim - 1, the coordinates of alpha^k modulo the
\* polynomial: alpha times table[k - 1], by the multiplication of polynomials.
C23_Table ==
    Called("GaloisField") /\ n > 1 =>
        /\ elements[1].exp_coefs = [i \in 1..n |-> 0]
        /\ \A k \in 1..(n - 1) :
              elements[k + 1].exp_coefs = [i \in 1..n |-> IF i = k + 1 THEN 1 ELSE 0]
        /\ elements[n + 1].exp_coefs = [i \in 1..n |-> (0 - coefs[i]) % p]
        /\ \A k \in 2..(dim - 1) :
              elements[k + 1].exp_coefs = RefMulX(elements[k].exp_coefs, RefLow, p)
        /\ \A k \in 1..(dim - 1) :
              elements[k + 1].exp_coefs = RefXPow(k, RefLow, p)
        /\ \A k \in 1..dim : lists[1][k] = StrRep(elements[k].exp_coefs)

\* C23: GF(3^3) was built from 1 + 2x + x^3
C23_Witness ==
    /\ Called("GaloisField") /\ p = 3 /\ n = 3 /\ coefs = <<1, 2, 0, 1>>
    /\ elements[4].exp_coefs = <<2, 1, 0>>
    /\ elements[27].exp_coefs = <<1, 0, 0>>

---------------------------------------------------------------------------
(* C24: prim_power and the table *)

\* the last call was one of the operators that give an element
CalledArithmetic == pc = "returned" /\ last.op \in {"add", "sub", "mul", "div", "pow", "inv"}

\* prim_power of e is the place of e's coordinates in the table
RefPlaced(e) ==
    IF n = 1 THEN e.prim_power = e.exp_coefs[1]
    ELSE /\ e.prim_power \in 0..(dim - 1)
         /\ elements[e.prim_power + 1].exp_coefs = e.exp_coefs

\* C24: every table[i] has prim_power i, after the constructor and after to_sdb,
\* and every element that +, -, *, /, pow or inv gives has coordinates found in
\* the table, at the place its prim_power says (for n = 1 prim_power is the
\* scalar value).
C24_PrimPower ==
    /\ Built => \A k \in 1..Len(elements) : elements[k].prim_power = k - 1
    /\ CalledArithmetic /\ last.out.kind = "elem" => RefPlaced(last.out)

---------------------------------------------------------------------------
(* C25: to_sdb leaves the objects of the table before it alone *)

---------------------------------------------------------------------------
(* C26: multiplication distributes over addition *)

\* a * (b + c) == a * b + a * c
RefDistributes(a, b, c) ==
    LET sum == Add(b, c)
        ab  == Mul(a, b)
        ac  == Mul(a, c)
    IN /\ sum.kind = "elem" /\ ab.kind = "elem" /\ ac.kind = "elem"
       /\ PyEq(Mul(a, sum), Add(ab, ac))

\* C26: in every field that was constructed, a * (b + c) == a * b + a * c for all
\* elements a, b, c: here a and b the operands of the product called last and c
\* every element of the table.
C26_Distributive ==
    Called("mul") =>
        \A k \in 1..Len(elements) :
            RefDistributes(At(elements, last.args[1]), At(elements, last.args[2]),
                           elements[k])

---------------------------------------------------------------------------
(* C27: the sum tr computes lies in the base field *)

\* C27: in an extension field in the polynomial basis, for every element e the
\* sum e + e^p + ... + e^(p^(n-1)) that tr computes has every coordinate but
\* the first zero.
C27_TraceInBaseField ==
    Called("tr") /\ n > 1 /\ ~bool_sdb =>
        LET sum == TrSum(At(elements, last.args[1]), n - 1)
        IN /\ sum.kind = "elem"
           /\ \A i \in 2..n : sum.exp_coefs[i] = 0
           /\ last.out = IntVal(sum.exp_coefs[1])

---------------------------------------------------------------------------
(* C28: the trace and the basis *)

\* C28: after a successful to_sdb(indices), tr(elements[k]) is for every k what
\* tr gave for the element at k before the transform, and verify_sdb(indices)
\* is still True.
C28_TraceBasisIndependent ==
    Transformed =>
        /\ \A k \in 1..Len(elements) : tr(elements[k]) = tr(Old[k])
        /\ VerifySdb(last.args)

---------------------------------------------------------------------------
(* C29: to_sdb keeps sums and products in their places *)

\* C29: after a successful to_sdb, for all indices i and j, the sum and the
\* product of elements[i] and elements[j] are elements whose index in the new
\* table is the index the sum and the product of the old elements at i and j
\* have in the old table.
C29_IndexStructure ==
    Transformed =>
        \A i \in 1..Len(elements) : \A j \in 1..Len(elements) :
            LET sum     == Add(elements[i], elements[j])
                prod    == Mul(elements[i], elements[j])
                oldsum  == Add(Old[i], Old[j])
                oldprod == Mul(Old[i], Old[j])
            IN /\ sum.kind = "elem" /\ oldsum.kind = "elem"
               /\ prod.kind = "elem" /\ oldprod.kind = "elem"
               /\ sum.prim_power = oldsum.prim_power
               /\ prod.prim_power = oldprod.prim_power
               /\ sum.exp_coefs = elements[sum.prim_power + 1].exp_coefs
               /\ prod.exp_coefs = elements[prod.prim_power + 1].exp_coefs
               /\ oldsum.exp_coefs = Old[oldsum.prim_power + 1].exp_coefs
               /\ oldprod.exp_coefs = Old[oldprod.prim_power + 1].exp_coefs

\* C29: GF(3^3) was transformed to a self-dual basis from the polynomial basis
C29_Witness ==
    /\ Transformed /\ p = 3 /\ n = 3 /\ ~captured.bool_sdb
    /\ Add(elements[2], elements[3]).prim_power = Add(Old[2], Old[3]).prim_power
    /\ Add(elements[2], elements[3]).exp_coefs # Add(Old[2], Old[3]).exp_coefs

---------------------------------------------------------------------------
(* C30: the strings of digits as keys *)

\* the coordinate vectors of GF(p^n)
RefVectors == [1..n -> 0..(p - 1)]

\* C30: the string of the decimal digits of the coordinates is a different one
\* for every two different coordinate vectors of [0, p)^n, also for p > 10; so
\* the constructor raises the ValueError of a repeated element only when the
\* powers of alpha do repeat, that is, when the polynomial is not primitive.
C30_KeyInjective ==
    ExtensionCall =>
        /\ \A u \in RefVectors : \A v \in RefVectors :
              StrRep(u) = StrRep(v) => u = v
        /\ RaisedPrimitivity => ~RefPrimitiveMonic(p, n, SubSeq(coefs, 1, n))

====
